---- MODULE Spec2Model ----
(***************************************************************************)
(* Grid layout of rg3d-ui (src/grid.rs): the rows and columns of a Grid,   *)
(* its measure_override / arrange_override passes and the mutators of the  *)
(* track sequences.                                                        *)
(*                                                                         *)
(* Lengths are f32 in the source.  Here a length is an integer number of   *)
(* 1/Scale units, and every length that enters the grid from outside is a  *)
(* whole multiple of Scale, so that the one division of the algorithm      *)
(* (rest / number of stretch tracks) is exact.  Track and child indices    *)
(* are 0-based as in the source; sequences are 1-based.                    *)
(***************************************************************************)
EXTENDS Integers, Sequences, FiniteSets, TLC

\* ------------------------------------------------------------------ bounds
MaxTracks == 2

NumChildren == 2

\* calls of the mutators of the track sequences after the grid was built
MaxMutations == 1

RECURSIVE Factorial(_)
Factorial(n) == IF n <= 1 THEN 1 ELSE n * Factorial(n - 1)

\* every count of stretch tracks (1..MaxTracks) divides Scale
Scale == Factorial(MaxTracks)

\* f32::INFINITY; no arithmetic is ever done on it
Infinity == 1000000

is_infinite(v) == v = Infinity

Min(a, b) == IF a < b THEN a ELSE b

Max(a, b) == IF a > b THEN a ELSE b

\* ------------------------------------------------------------------ inputs
Children == 1..NumChildren

\* indices a child may carry: every valid one and the first invalid one
Indices == 0..MaxTracks

\* the cell and visibility of a child nobody moved: the children lie on the
\* diagonal of the grid and are visible
DefaultChild(c) ==
    [row |-> (c - 1) % MaxTracks, column |-> (c - 1) % MaxTracks, visibility |-> TRUE]

\* the children of the grid: the last one was given any cell and visibility
ChildrenSetups ==
    {[c \in Children |-> IF c = NumChildren THEN cell ELSE DefaultChild(c)] :
        cell \in [row : Indices, column : Indices, visibility : BOOLEAN]}

\* the size a child would take with unlimited room
ChildNatural(c) == IF c = NumChildren THEN <<3 * Scale, 4 * Scale>> ELSE <<Scale, 2 * Scale>>

\* on each axis: less than a strict track, more than two, and unbounded
AvailableSizes == {<<Scale, Infinity>>, <<4 * Scale, Scale>>, <<Infinity, 4 * Scale>>}

FinalSizes == {<<3 * Scale, 2 * Scale>>}

\* ------------------------------------------------------------ track model
Strict == "Strict"

Auto == "Auto"

Stretch == "Stretch"

SizeMode == {Strict, Auto, Stretch}

Column_generic(size_mode, desired_width) ==
    [size_mode |-> size_mode, desired_width |-> desired_width, actual_width |-> 0, x |-> 0]

Column_strict(desired_width) ==
    [size_mode |-> Strict, desired_width |-> desired_width, actual_width |-> 0, x |-> 0]

Column_stretch == [size_mode |-> Stretch, desired_width |-> 0, actual_width |-> 0, x |-> 0]

Column_auto == [size_mode |-> Auto, desired_width |-> 0, actual_width |-> 0, x |-> 0]

Row_generic(size_mode, desired_height) ==
    [size_mode |-> size_mode, desired_height |-> desired_height, actual_height |-> 0, y |-> 0]

Row_strict(desired_height) ==
    [size_mode |-> Strict, desired_height |-> desired_height, actual_height |-> 0, y |-> 0]

Row_stretch == [size_mode |-> Stretch, desired_height |-> 0, actual_height |-> 0, y |-> 0]

Row_auto == [size_mode |-> Auto, desired_height |-> 0, actual_height |-> 0, y |-> 0]

\* the columns and rows a caller can construct
NewColumns == {Column_strict(2 * Scale), Column_generic(Auto, 2 * Scale), Column_stretch}

NewRows == {Row_strict(0 - Scale), Row_auto, Row_stretch}

SeqsUpTo(S, n) == UNION {[1..k -> S] : k \in 0..n}

\* ------------------------------------------------------------------- state
VARIABLES
    rows,           \* Grid.rows
    columns,        \* Grid.columns
    children,       \* per child: row, column, visibility (widget tree)
    desired_size,   \* per child: the size its last measure left
    last_op,        \* the last operation called on the grid
    arg,            \* the size passed to it (measure, arrange)
    ret,            \* the size it returned (measure, arrange)
    arranged,       \* per child: the rectangle it passed to the child's arrange
    panicked,       \* an index out of bounds aborted it
    repeated,       \* it was a measure_override that followed one with the same size
    mutations       \* number of mutator calls so far

vars ==
    <<rows, columns, children, desired_size, last_op, arg, ret, arranged, panicked,
      repeated, mutations>>

\* Option::None for a rectangle
NoRect == <<>>

NoSize == <<0, 0>>

NotArranged == [c \in Children |-> NoRect]

\* GridBuilder::build: the grid starts with the rows and columns given to the
\* builder (none for Grid::new), never measured
Init ==
    /\ rows \in SeqsUpTo(NewRows, MaxTracks)
    /\ columns \in SeqsUpTo(NewColumns, MaxTracks)
    /\ children \in ChildrenSetups
    /\ desired_size = [c \in Children |-> NoSize]
    /\ last_op = "new"
    /\ arg = NoSize
    /\ ret = NoSize
    /\ arranged = NotArranged
    /\ panicked = FALSE
    /\ repeated = FALSE
    /\ mutations = 0

\* ---------------------------------------------------------------- mutators
Mutated ==
    /\ ~panicked
    /\ mutations < MaxMutations
    /\ mutations' = mutations + 1
    /\ last_op' = "mutate"
    /\ arg' = NoSize
    /\ ret' = NoSize
    /\ arranged' = NotArranged
    /\ repeated' = FALSE
    /\ UNCHANGED <<children, desired_size, panicked>>

add_row(row) ==
    /\ Len(rows) < MaxTracks
    /\ rows' = Append(rows, row)
    /\ UNCHANGED columns
    /\ Mutated

add_column(column) ==
    /\ Len(columns) < MaxTracks
    /\ columns' = Append(columns, column)
    /\ UNCHANGED rows
    /\ Mutated

clear_columns ==
    /\ columns' = <<>>
    /\ UNCHANGED rows
    /\ Mutated

clear_rows ==
    /\ rows' = <<>>
    /\ UNCHANGED columns
    /\ Mutated

set_columns(new_columns) ==
    /\ columns' = new_columns
    /\ UNCHANGED rows
    /\ Mutated

set_rows(new_rows) ==
    /\ rows' = new_rows
    /\ UNCHANGED columns
    /\ Mutated

\* ------------------------------------------------- the children's own layout
\* Widget::measure of a child: the child takes its natural size, cut down to
\* the constraint; the same constraint always gives the same size
ChildMeasure(c, constraint) ==
    <<Max(0, Min(ChildNatural(c)[1], constraint[1])),
      Max(0, Min(ChildNatural(c)[2], constraint[2]))>>

\* Widget::measure_override, the layout of a plain panel: measures every child
\* against the available size and reports the largest desired size
widget_measure_override(available_size) ==
    LET ds == [c \in Children |-> ChildMeasure(c, available_size)]
        RECURSIVE largest(_, _)
        largest(k, size) ==
            IF k > NumChildren THEN size
            ELSE largest(k + 1, <<Max(size[1], ds[k][1]), Max(size[2], ds[k][2])>>)
    IN [desired_size |-> ds, size |-> largest(1, <<0, 0>>)]

\* ------------------------------------------------------------ step 2: preset
RECURSIVE auto_column_width_of_any_child(_, _, _, _)
\* auto_column_width without the test of the child's visibility
auto_column_width_of_any_child(i, actual_width, k, ds) ==
    IF k > NumChildren THEN actual_width
    ELSE auto_column_width_of_any_child(
            i,
            IF children[k].column = i /\ ds[k][1] > actual_width
            THEN ds[k][1]
            ELSE actual_width,
            k + 1,
            ds)

RECURSIVE auto_column_width(_, _, _, _)
\* the loop over the children for the Auto column i, from child k on
auto_column_width(i, actual_width, k, ds) ==
    IF k > NumChildren THEN actual_width
    ELSE auto_column_width(
            i,
            IF children[k].column = i /\ children[k].visibility /\ ds[k][1] > actual_width
            THEN ds[k][1]
            ELSE actual_width,
            k + 1,
            ds)

RECURSIVE preset_width_with_stretch(_, _, _, _)
\* preset_width_from, adding the width a Stretch column still has
preset_width_with_stretch(j, cols, preset_width, ds) ==
    IF j > Len(cols) THEN [columns |-> cols, preset_width |-> preset_width]
    ELSE IF cols[j].size_mode = Strict
    THEN preset_width_with_stretch(
            j + 1,
            [cols EXCEPT ![j].actual_width = cols[j].desired_width],
            preset_width + cols[j].desired_width,
            ds)
    ELSE IF cols[j].size_mode = Auto
    THEN LET actual_width == auto_column_width(j - 1, cols[j].desired_width, 1, ds)
         IN preset_width_with_stretch(
                j + 1,
                [cols EXCEPT ![j].actual_width = actual_width],
                preset_width + actual_width,
                ds)
    ELSE preset_width_with_stretch(j + 1, cols, preset_width + cols[j].actual_width, ds)

RECURSIVE preset_width_from(_, _, _, _)
\* the loop over the columns, from column j on (1-based)
preset_width_from(j, cols, preset_width, ds) ==
    IF j > Len(cols) THEN [columns |-> cols, preset_width |-> preset_width]
    ELSE IF cols[j].size_mode = Strict
    THEN preset_width_from(
            j + 1,
            [cols EXCEPT ![j].actual_width = cols[j].desired_width],
            preset_width + cols[j].desired_width,
            ds)
    ELSE IF cols[j].size_mode = Auto
    THEN LET actual_width == auto_column_width(j - 1, cols[j].desired_width, 1, ds)
         IN preset_width_from(
                j + 1,
                [cols EXCEPT ![j].actual_width = actual_width],
                preset_width + actual_width,
                ds)
    ELSE preset_width_from(j + 1, cols, preset_width, ds)

calculate_preset_width(cols, ds) == preset_width_from(1, cols, 0, ds)

RECURSIVE auto_row_height(_, _, _, _)
\* the loop over the children for the Auto row i, from child k on
auto_row_height(i, actual_height, k, ds) ==
    IF k > NumChildren THEN actual_height
    ELSE auto_row_height(
            i,
            IF children[k].row = i /\ children[k].visibility /\ ds[k][2] > actual_height
            THEN ds[k][2]
            ELSE actual_height,
            k + 1,
            ds)

RECURSIVE preset_height_from(_, _, _, _)
\* the loop over the rows, from row j on (1-based)
preset_height_from(j, rs, preset_height, ds) ==
    IF j > Len(rs) THEN [rows |-> rs, preset_height |-> preset_height]
    ELSE IF rs[j].size_mode = Strict
    THEN preset_height_from(
            j + 1,
            [rs EXCEPT ![j].actual_height = rs[j].desired_height],
            preset_height + rs[j].desired_height,
            ds)
    ELSE IF rs[j].size_mode = Auto
    THEN LET actual_height == auto_row_height(j - 1, rs[j].desired_height, 1, ds)
         IN preset_height_from(
                j + 1,
                [rs EXCEPT ![j].actual_height = actual_height],
                preset_height + actual_height,
                ds)
    ELSE preset_height_from(j + 1, rs, preset_height, ds)

calculate_preset_height(rs, ds) == preset_height_from(1, rs, 0, ds)

\* ----------------------------------------------------------- step 3: stretch
RECURSIVE stretch_content_width_visible(_, _, _, _)
\* stretch_content_width counting the visible children only
stretch_content_width_visible(k, cols, rest_width, ds) ==
    IF k > NumChildren THEN rest_width
    ELSE stretch_content_width_visible(
            k + 1,
            cols,
            IF /\ children[k].column < Len(cols)
               /\ children[k].visibility
               /\ cols[children[k].column + 1].size_mode = Stretch
            THEN rest_width + ds[k][1]
            ELSE rest_width,
            ds)

RECURSIVE stretch_content_width(_, _, _, _)
\* the loop over the children, from child k on: the widths of the children in
\* Stretch columns; Vec::get skips a child whose column index is out of range
stretch_content_width(k, cols, rest_width, ds) ==
    IF k > NumChildren THEN rest_width
    ELSE stretch_content_width(
            k + 1,
            cols,
            IF /\ children[k].column < Len(cols)
               /\ cols[children[k].column + 1].size_mode = Stretch
            THEN rest_width + ds[k][1]
            ELSE rest_width,
            ds)

RECURSIVE set_stretch_widths(_, _, _)
\* the loop over the columns, from column j on: every Stretch column gets
\* width_per_col
set_stretch_widths(j, cols, width_per_col) ==
    IF j > Len(cols) THEN cols
    ELSE set_stretch_widths(
            j + 1,
            IF cols[j].size_mode = Stretch
            THEN [cols EXCEPT ![j].actual_width = width_per_col]
            ELSE cols,
            width_per_col)

\* fit_stretch_sized_columns that never hands out a negative width
fit_stretch_sized_columns_clamped(cols, ds, available_size, preset_width) ==
    LET rest_width ==
            IF is_infinite(available_size[1])
            THEN stretch_content_width(1, cols, 0, ds)
            ELSE available_size[1] - preset_width
        stretch_sized_columns == Cardinality({j \in 1..Len(cols) : cols[j].size_mode = Stretch})
    IN  IF stretch_sized_columns > 0
        THEN set_stretch_widths(1, cols, Max(0, rest_width \div stretch_sized_columns))
        ELSE cols

fit_stretch_sized_columns(cols, ds, available_size, preset_width) ==
    LET rest_width ==
            IF is_infinite(available_size[1])
            THEN stretch_content_width(1, cols, 0, ds)
            ELSE available_size[1] - preset_width
        stretch_sized_columns == Cardinality({j \in 1..Len(cols) : cols[j].size_mode = Stretch})
    IN  IF stretch_sized_columns > 0
        THEN set_stretch_widths(1, cols, rest_width \div stretch_sized_columns)
        ELSE cols

RECURSIVE stretch_content_height(_, _, _, _)
\* the loop over the children, from child k on: the heights of the children in
\* Stretch rows; Vec::get skips a child whose row index is out of range
stretch_content_height(k, rs, rest_height, ds) ==
    IF k > NumChildren THEN rest_height
    ELSE stretch_content_height(
            k + 1,
            rs,
            IF /\ children[k].row < Len(rs)
               /\ rs[children[k].row + 1].size_mode = Stretch
            THEN rest_height + ds[k][2]
            ELSE rest_height,
            ds)

RECURSIVE set_stretch_heights(_, _, _)
\* the loop over the rows, from row j on: every Stretch row gets height_per_row
set_stretch_heights(j, rs, height_per_row) ==
    IF j > Len(rs) THEN rs
    ELSE set_stretch_heights(
            j + 1,
            IF rs[j].size_mode = Stretch
            THEN [rs EXCEPT ![j].actual_height = height_per_row]
            ELSE rs,
            height_per_row)

\* fit_stretch_sized_rows with the operands of the subtraction exchanged
fit_stretch_sized_rows_reversed(rs, ds, available_size, preset_height) ==
    LET rest_height ==
            IF is_infinite(available_size[2])
            THEN stretch_content_height(1, rs, 0, ds)
            ELSE preset_height - available_size[2]
        stretch_sized_rows == Cardinality({j \in 1..Len(rs) : rs[j].size_mode = Stretch})
    IN  IF stretch_sized_rows > 0
        THEN set_stretch_heights(1, rs, rest_height \div stretch_sized_rows)
        ELSE rs

fit_stretch_sized_rows(rs, ds, available_size, preset_height) ==
    LET rest_height ==
            IF is_infinite(available_size[2])
            THEN stretch_content_height(1, rs, 0, ds)
            ELSE available_size[2] - preset_height
        stretch_sized_rows == Cardinality({j \in 1..Len(rs) : rs[j].size_mode = Stretch})
    IN  IF stretch_sized_rows > 0
        THEN set_stretch_heights(1, rs, rest_height \div stretch_sized_rows)
        ELSE rs

\* ----------------------------------------------------------- step 4: offsets
RECURSIVE arrange_rows_from(_, _, _)
\* the loop over the rows, from row j on, y the sum of the heights before it
arrange_rows_from(j, rs, y) ==
    IF j > Len(rs) THEN rs
    ELSE arrange_rows_from(j + 1, [rs EXCEPT ![j].y = y], y + rs[j].actual_height)

arrange_rows(rs) == arrange_rows_from(1, rs, 0)

RECURSIVE arrange_columns_past(_, _, _)
\* arrange_columns_from with the width added before x is stored
arrange_columns_past(j, cols, x) ==
    IF j > Len(cols) THEN cols
    ELSE arrange_columns_past(
            j + 1,
            [cols EXCEPT ![j].x = x + cols[j].actual_width],
            x + cols[j].actual_width)

RECURSIVE arrange_columns_from(_, _, _)
\* the loop over the columns, from column j on, x the sum of the widths before it
arrange_columns_from(j, cols, x) ==
    IF j > Len(cols) THEN cols
    ELSE arrange_columns_from(j + 1, [cols EXCEPT ![j].x = x], x + cols[j].actual_width)

arrange_columns(cols) == arrange_columns_from(1, cols, 0)

\* ------------------------------------------------------------ the two passes
\* no_tracks that needs both sequences to be empty
no_tracks_at_all(cols, rs) == cols = <<>> /\ rs = <<>>

\* "In case of no rows or columns, grid acts like default panel."
no_tracks(cols, rs) == cols = <<>> \/ rs = <<>>

\* step 3 of measure_override: the children are measured again, in order, each
\* against the size of its cell; columns[i] and rows[i] are unchecked indexing
RECURSIVE remeasure(_, _, _, _)
remeasure(k, cols, rs, ds) ==
    IF k > NumChildren THEN [desired_size |-> ds, panicked |-> FALSE]
    ELSE IF children[k].column >= Len(cols) \/ children[k].row >= Len(rs)
    THEN [desired_size |-> ds, panicked |-> TRUE]
    ELSE LET size_for_child ==
                <<cols[children[k].column + 1].actual_width,
                  rs[children[k].row + 1].actual_height>>
         IN remeasure(k + 1, cols, rs, [ds EXCEPT ![k] = ChildMeasure(k, size_for_child)])

\* grid_desired_size with = in the place of +=: the extent of the last track
grid_desired_size_of_last(cols, rs) ==
    <<cols[Len(cols)].actual_width, rs[Len(rs)].actual_height>>

\* step 4 of measure_override: the desired size of the grid
grid_desired_size(cols, rs) ==
    LET RECURSIVE width(_)
        width(j) == IF j = 0 THEN 0 ELSE width(j - 1) + cols[j].actual_width
        RECURSIVE height(_)
        height(j) == IF j = 0 THEN 0 ELSE height(j - 1) + rs[j].actual_height
    IN <<width(Len(cols)), height(Len(rs))>>

measure_override(available_size) ==
    /\ ~panicked
    /\ last_op' = "measure_override"
    /\ arg' = available_size
    /\ arranged' = NotArranged
    /\ repeated' = (last_op = "measure_override" /\ arg = available_size)
    /\ UNCHANGED <<children, mutations>>
    /\ IF no_tracks(columns, rows)
       THEN LET panel == widget_measure_override(available_size)
            IN  /\ desired_size' = panel.desired_size
                /\ ret' = panel.size
                /\ UNCHANGED <<rows, columns, panicked>>
       ELSE LET relaxed == [c \in Children |-> ChildMeasure(c, available_size)]
                width == calculate_preset_width(columns, relaxed)
                height == calculate_preset_height(rows, relaxed)
                fit_columns ==
                    fit_stretch_sized_columns(
                        width.columns, relaxed, available_size, width.preset_width)
                fit_rows ==
                    fit_stretch_sized_rows(
                        height.rows, relaxed, available_size, height.preset_height)
                new_rows == arrange_rows(fit_rows)
                new_columns == arrange_columns(fit_columns)
                again == remeasure(1, columns', rows', relaxed)
            IN  /\ rows' = new_rows
                /\ columns' = new_columns
                /\ desired_size' = again.desired_size
                /\ panicked' = again.panicked
                /\ ret' = IF again.panicked THEN NoSize ELSE grid_desired_size(columns', rows')

\* final_rect that gives a child with a row out of range a flat rectangle in
\* its column
final_rect_flat(c, cols, rs) ==
    IF children[c].column < Len(cols)
    THEN IF children[c].row < Len(rs)
         THEN <<cols[children[c].column + 1].x,
                rs[children[c].row + 1].y,
                cols[children[c].column + 1].actual_width,
                rs[children[c].row + 1].actual_height>>
         ELSE <<cols[children[c].column + 1].x, 0, cols[children[c].column + 1].actual_width, 0>>
    ELSE NoRect

\* the rectangle arrange_override finds for a child: Some(rect) when both of
\* its indices are in range (Vec::get), None otherwise
final_rect(c, cols, rs) ==
    IF children[c].column < Len(cols)
    THEN IF children[c].row < Len(rs)
         THEN <<cols[children[c].column + 1].x,
                rs[children[c].row + 1].y,
                cols[children[c].column + 1].actual_width,
                rs[children[c].row + 1].actual_height>>
         ELSE NoRect
    ELSE NoRect

arrange_override(final_size) ==
    /\ ~panicked
    /\ last_op' = "arrange_override"
    /\ arg' = final_size
    /\ ret' = final_size
    /\ repeated' = FALSE
    /\ UNCHANGED <<rows, columns, children, desired_size, panicked, mutations>>
    /\ IF no_tracks(columns, rows)
       THEN arranged' = [c \in Children |-> <<0, 0, final_size[1], final_size[2]>>]
       ELSE arranged' = [c \in Children |-> final_rect(c, columns, rows)]

\* ------------------------------------------------------------ specification
Next ==
    \/ \E row \in NewRows : add_row(row)
    \/ \E column \in NewColumns : add_column(column)
    \/ clear_columns
    \/ clear_rows
    \/ \E new_columns \in SeqsUpTo(NewColumns, MaxTracks) : set_columns(new_columns)
    \/ \E new_rows \in SeqsUpTo(NewRows, MaxTracks) : set_rows(new_rows)
    \/ \E available_size \in AvailableSizes : measure_override(available_size)
    \/ \E final_size \in FinalSizes : arrange_override(final_size)

Spec == Init /\ [][Next]_vars

\* the layout passes alone, on a grid nobody changes after it was built
NextLayout ==
    \/ \E available_size \in AvailableSizes : measure_override(available_size)
    \/ \E final_size \in FinalSizes : arrange_override(final_size)

SpecLayout == Init /\ [][NextLayout]_vars

\* ------------------------------------------------------------------ claims
RECURSIVE SumTo(_, _)
\* f[1] + ... + f[n]
SumTo(f, n) == IF n = 0 THEN 0 ELSE SumTo(f, n - 1) + f[n]

\* the sum of the values of a function on 1..n
Sum(f) == SumTo(f, Cardinality(DOMAIN f))

Largest(S) == CHOOSE m \in S : \A v \in S : v <= m

ColumnIndices == 1..Len(columns)

RowIndices == 1..Len(rows)

HasTracks == columns # <<>> /\ rows # <<>>

\* a measure_override that ran to its end on a grid with rows and columns
Measured == last_op = "measure_override" /\ ~panicked /\ HasTracks

\* the size child c reported in the relaxed pre-measure of the last measure
Relaxed(c) == ChildMeasure(c, arg)

StretchColumns == {j \in ColumnIndices : columns[j].size_mode = Stretch}

StretchRows == {j \in RowIndices : rows[j].size_mode = Stretch}

\* the sum of the widths of the Strict and Auto columns, of the heights of the
\* Strict and Auto rows
PresetWidth ==
    Sum([j \in ColumnIndices |-> IF j \in StretchColumns THEN 0 ELSE columns[j].actual_width])

PresetHeight ==
    Sum([j \in RowIndices |-> IF j \in StretchRows THEN 0 ELSE rows[j].actual_height])

OutOfRange(c) == children[c].column >= Len(columns) \/ children[c].row >= Len(rows)

\* C1: measure_override on a grid with rows and columns never fails, also
\* when a child's row or column index is out of range
C1_MeasureNeverPanics ==
    (last_op = "measure_override" /\ HasTracks) => ~panicked

\* C2 as stated: after a completed measure_override every actual extent is >= 0
C2_ActualNeverNegative ==
    Measured =>
        /\ \A j \in ColumnIndices : columns[j].actual_width >= 0
        /\ \A j \in RowIndices : rows[j].actual_height >= 0

\* C2 as amended: after a completed measure_override a Strict or Auto track is
\* at least as large as its desired extent, hence >= 0 when that is >= 0, and a
\* Stretch track is >= 0 exactly when the available size on its axis is
\* infinite or at least the sum of the Strict and Auto extents
C2_ActualNegativeOnlyWhenOversubscribed ==
    Measured =>
        /\ \A j \in ColumnIndices \ StretchColumns :
                /\ columns[j].actual_width >= columns[j].desired_width
                /\ columns[j].desired_width >= 0 => columns[j].actual_width >= 0
        /\ \A j \in RowIndices \ StretchRows :
                /\ rows[j].actual_height >= rows[j].desired_height
                /\ rows[j].desired_height >= 0 => rows[j].actual_height >= 0
        /\ \A j \in StretchColumns :
                columns[j].actual_width >= 0 <=> (is_infinite(arg[1]) \/ arg[1] >= PresetWidth)
        /\ \A j \in StretchRows :
                rows[j].actual_height >= 0 <=> (is_infinite(arg[2]) \/ arg[2] >= PresetHeight)

\* a measured grid with a Stretch column of negative width and a Strict row of
\* negative height
C2_Witness ==
    /\ Measured
    /\ \E j \in StretchColumns : columns[j].actual_width < 0
    /\ \E j \in RowIndices : rows[j].size_mode = Strict /\ rows[j].actual_height < 0

PrefixSums ==
    /\ \A j \in ColumnIndices :
            columns[j].x = Sum([i \in 1..(j - 1) |-> columns[i].actual_width])
    /\ \A j \in RowIndices :
            rows[j].y = Sum([i \in 1..(j - 1) |-> rows[i].actual_height])

\* C3 as stated: after a completed measure_override the offset of a track is
\* the sum of the extents of the tracks before it, and offsets never decrease
C3_OffsetsPrefixSumsAndMonotone ==
    Measured =>
        /\ PrefixSums
        /\ \A j \in ColumnIndices \ {1} : columns[j].x >= columns[j - 1].x
        /\ \A j \in RowIndices \ {1} : rows[j].y >= rows[j - 1].y

\* C3 as amended: after a completed measure_override the offset of a track is
\* the sum of the extents of the tracks before it (0 for the first), and the
\* offset of a track is below that of its predecessor exactly when the
\* predecessor's extent is negative
C3_OffsetsPrefixSums ==
    Measured =>
        /\ PrefixSums
        /\ \A j \in ColumnIndices \ {1} :
                columns[j].x >= columns[j - 1].x <=> columns[j - 1].actual_width >= 0
        /\ \A j \in RowIndices \ {1} :
                rows[j].y >= rows[j - 1].y <=> rows[j - 1].actual_height >= 0

\* a measured grid whose second column starts right of the first and whose
\* second row starts above the first
C3_Witness ==
    /\ Measured
    /\ Len(columns) >= 2
    /\ columns[2].x > 0
    /\ Len(rows) >= 2
    /\ rows[2].y < rows[1].y

\* the rectangle of the cell of child c, from the tracks as they are
CellRect(c) ==
    <<columns[children[c].column + 1].x,
      rows[children[c].row + 1].y,
      columns[children[c].column + 1].actual_width,
      rows[children[c].row + 1].actual_height>>

\* C4: arrange_override on a grid with rows and columns does not fail, returns
\* final_size, commands every child whose row and column index are both in
\* range to the rectangle of its cell, and commands no other child
C4_ArrangeByCell ==
    (last_op = "arrange_override" /\ HasTracks) =>
        /\ ~panicked
        /\ ret = arg
        /\ \A c \in Children :
                IF OutOfRange(c) THEN arranged[c] = NoRect ELSE arranged[c] = CellRect(c)

\* an arrange_override that skipped a child and put another into a cell whose
\* height an earlier measure_override computed
C4_Witness ==
    /\ last_op = "arrange_override"
    /\ HasTracks
    /\ \E c \in Children : OutOfRange(c) /\ arranged[c] = NoRect
    /\ \E c \in Children : ~OutOfRange(c) /\ arranged[c] = CellRect(c) /\ arranged[c][4] > 0

\* C5: while the grid has no rows or no columns, arrange_override commands
\* every child to (0, 0, final_size) and returns final_size, and neither
\* measure_override nor arrange_override changes a row or a column
C5_NoTracksActsLikePanel ==
    [][(columns = <<>> \/ rows = <<>>) =>
        /\ last_op' = "measure_override" => (rows' = rows /\ columns' = columns /\ ~panicked')
        /\ last_op' = "arrange_override" =>
            /\ rows' = rows
            /\ columns' = columns
            /\ ret' = arg'
            /\ \A c \in Children : arranged'[c] = <<0, 0, arg'[1], arg'[2]>>]_vars

\* an arrange_override on a grid without columns whose rows still carry the
\* heights of an earlier measure_override, with a child outside the first row
C5_Witness ==
    /\ last_op = "arrange_override"
    /\ columns = <<>>
    /\ \E j \in RowIndices : rows[j].actual_height # 0
    /\ \E c \in Children : children[c].row > 0 /\ arranged[c] = <<0, 0, arg[1], arg[2]>>

\* C6: after a completed measure_override an Auto track has the largest of
\* its desired extent and the relaxed sizes of the visible children in it
C6_AutoFitsVisibleChildren ==
    Measured =>
        /\ \A j \in ColumnIndices :
                columns[j].size_mode = Auto =>
                    columns[j].actual_width =
                        Largest({columns[j].desired_width} \cup
                                {Relaxed(c)[1] : c \in {d \in Children :
                                    children[d].column = j - 1 /\ children[d].visibility}})
        /\ \A j \in RowIndices :
                rows[j].size_mode = Auto =>
                    rows[j].actual_height =
                        Largest({rows[j].desired_height} \cup
                                {Relaxed(c)[2] : c \in {d \in Children :
                                    children[d].row = j - 1 /\ children[d].visibility}})

\* an Auto row raised above its desired height by a visible child, holding a
\* higher child that is not visible
C6_Witness ==
    /\ Measured
    /\ \E j \in RowIndices :
        /\ rows[j].size_mode = Auto
        /\ rows[j].actual_height > rows[j].desired_height
        /\ \E c \in Children :
            /\ children[c].row = j - 1
            /\ children[c].visibility
            /\ Relaxed(c)[2] = rows[j].actual_height
        /\ \E c \in Children :
            /\ children[c].row = j - 1
            /\ ~children[c].visibility
            /\ Relaxed(c)[2] > rows[j].actual_height

\* C7: after a completed measure_override with a finite available size on an
\* axis, every Stretch track of the axis has (available size - sum of the
\* Strict and Auto extents) / number of Stretch tracks, negative or not
C7_StretchSharesLeftover ==
    Measured =>
        /\ ~is_infinite(arg[1]) =>
            \A j \in StretchColumns :
                columns[j].actual_width =
                    (arg[1] - PresetWidth) \div Cardinality(StretchColumns)
        /\ ~is_infinite(arg[2]) =>
            \A j \in StretchRows :
                rows[j].actual_height =
                    (arg[2] - PresetHeight) \div Cardinality(StretchRows)

\* the only Stretch column got the negative rest of a finite width that the
\* Strict and Auto columns exceed
C7_Witness ==
    /\ Measured
    /\ ~is_infinite(arg[1])
    /\ PresetWidth > arg[1]
    /\ \E j \in StretchColumns : StretchColumns = {j} /\ columns[j].actual_width < 0

\* the children whose column, whose row is a Stretch track
InStretchColumn == {c \in Children : children[c].column + 1 \in StretchColumns}

InStretchRow == {c \in Children : children[c].row + 1 \in StretchRows}

\* C8: after a completed measure_override with an infinite available size on
\* an axis, every Stretch track of the axis has L / number of Stretch tracks,
\* L the sum of the relaxed sizes of the children in Stretch tracks
C8_StretchSharesContent ==
    Measured =>
        /\ is_infinite(arg[1]) =>
            \A j \in StretchColumns :
                columns[j].actual_width =
                    Sum([c \in Children |-> IF c \in InStretchColumn THEN Relaxed(c)[1] ELSE 0])
                        \div Cardinality(StretchColumns)
        /\ is_infinite(arg[2]) =>
            \A j \in StretchRows :
                rows[j].actual_height =
                    Sum([c \in Children |-> IF c \in InStretchRow THEN Relaxed(c)[2] ELSE 0])
                        \div Cardinality(StretchRows)

\* two Stretch columns, a child of width Scale in one and a child of width
\* 3 * Scale in the other, unbounded width: each column is 2 * Scale wide
C8_Witness ==
    /\ Measured
    /\ is_infinite(arg[1])
    /\ Cardinality(StretchColumns) = 2
    /\ \E c, d \in InStretchColumn :
        /\ children[c].column # children[d].column
        /\ Relaxed(c)[1] = Scale
        /\ Relaxed(d)[1] = 3 * Scale
    /\ \A j \in StretchColumns : columns[j].actual_width = 2 * Scale

\* C9: a measure_override that follows a completed measure_override with the
\* same available size, nothing in between, leaves every row and column as it
\* was and returns the same size
C9_MeasureTwiceSameResult ==
    [][(last_op = "measure_override" /\ ~panicked /\ last_op' = "measure_override" /\ arg' = arg) =>
        (rows' = rows /\ columns' = columns /\ ret' = ret /\ ~panicked')]_vars

\* a second measure_override with the same size, on a grid changed after it
\* was built, whose children the constrained re-measure left smaller than
\* the relaxed one
C9_Witness ==
    /\ Measured
    /\ repeated
    /\ mutations > 0
    /\ StretchColumns # {}
    /\ \E j \in RowIndices : rows[j].size_mode = Auto
    /\ \E c \in Children : desired_size[c] # Relaxed(c)

\* C10: a completed measure_override returns the sum of the widths of all
\* columns and the sum of the heights of all rows
C10_DesiredSizeIsSumOfTracks ==
    Measured =>
        ret = <<Sum([j \in ColumnIndices |-> columns[j].actual_width]),
                Sum([j \in RowIndices |-> rows[j].actual_height])>>

\* the returned width exceeds what the children reported in the constrained
\* re-measure, and a column without a child counts in it
C10_Witness ==
    /\ Measured
    /\ ret[1] > Sum([c \in Children |-> desired_size[c][1]])
    /\ \E j \in ColumnIndices :
        /\ columns[j].actual_width > 0
        /\ \A c \in Children : children[c].column # j - 1

====
